---- MODULE Spec2Model ----
(***************************************************************************)
(* Model of annotate_fasta_0.4.py: the per-record annotation loop of       *)
(* main(), the positional/coverage gate check_hit_position() and the       *)
(* bookkeeping of the best hit.                                           *)
(*                                                                         *)
(* Numbers.  The textual BlastRes fields are held as the integers that     *)
(* int() yields for them.  hit_diff is a Python float; it is held here as  *)
(* an exact fraction <<numerator, denominator>>.  On the input values used *)
(* below (query lengths 3 and 4, alignment lengths 0..3) the float         *)
(* computation 1 - x/y orders and equates values exactly as the fractions  *)
(* do: every ratio is either an integer, a multiple of 1/4, or lies on the *)
(* side <= 1 where distinct fractions give distinct floats.                *)
(***************************************************************************)
EXTENDS Integers, Sequences, FiniteSets, TLC

\* ------------------------------------------------------------------ bounds
MaxHits == 2
MaxRecords == 2

\* ------------------------------------------------------- program constants
DefaultMaxQueryStart == 1
DefaultMaxSubjectStart == 1

\* --------------------------------------------------------- input samples
BlastTypes == {"blastn", "blastx", "tblastx"}
SupportedTypes == {"blastn", "blastx"}
Subjects == {"s1", "s2"}
QLens == {0, 3, 4}
Lengths == 0..3
Positions == {<<1, 1>>, <<2, 1>>, <<1, 2>>}
EValues == 0..1
PIdents == {90}
BitScores == {50}
Mismatches == {0}

\* annotation text, as the pieces that are concatenated
NoHit == <<"No hit">>
\* a local name of main: <<>> while unbound, <<value>> once assigned
Unset == <<>>
Bound(x) == <<x>>
ValueOf(l) == l[1]

VARIABLES
    blast_type,          \* args.blast_type
    max_query_start,     \* args.max_query_start
    arg_max_subject_start, \* args.max_subject_start
    max_subject_start,   \* local of main, Unset until line 183/185 binds it
    record_ids,          \* the ids of record_dict, in iteration order
    blast_dict,          \* id -> list of BlastRes
    pc,                  \* position in main
    rec,                 \* index into record_ids of the current record
    k,                   \* index into v of the next hit of the for loop
    percent_diff,        \* fraction
    annotation,
    winner,              \* index in v of the res the annotation was built from
    rejected3,           \* indices of hits for which line 67 evaluated to false
    top_evalue, top_pident, top_bitscore, top_mismatch,
    output,              \* descriptions written to output_handle so far
    error                \* the exception that ended the run

vars == <<blast_type, max_query_start, arg_max_subject_start,
          max_subject_start, record_ids, blast_dict, pc, rec, k, percent_diff, annotation, winner,
          rejected3, top_evalue, top_pident, top_bitscore, top_mismatch,
          output, error>>

\* ----------------------------------------------------------- BlastRes
BlastRes(sseqid, pident, qlen, length, mismatch, qstart, sstart, evalue, bitscore) ==
    [sseqid |-> sseqid, pident |-> pident, qlen |-> qlen, length |-> length,
     mismatch |-> mismatch, qstart |-> qstart, sstart |-> sstart,
     evalue |-> evalue, bitscore |-> bitscore]

\* ----------------------------------------------------------- fractions
Abs(x) == IF x < 0 THEN -x ELSE x

One == <<1, 1>>

Less(a, b) == a[1] * b[2] < b[1] * a[2]

SameDiff(a, b) == a[1] * b[2] = b[1] * a[2]

LessEq(a, b) == Less(a, b) \/ SameDiff(a, b)

\* round(x, 2) in hundredths: nearest, an exact half going to the even digit
Round2(d) ==
    LET n == 100 * d[1]
        q == n \div d[2]
        r == n % d[2]
    IN  IF 2 * r < d[2] THEN q
        ELSE IF 2 * r > d[2] THEN q + 1
        ELSE IF q % 2 = 0 THEN q ELSE q + 1

\* ------------------------------------------------------------ name lookup
\* names bound at module level (imports, class, functions, dunder names)
ModuleGlobals ==
    {"argparse", "SeqIO", "defaultdict", "sys", "os", "subprocess",
     "fileinput", "BlastRes", "proportion", "check_hit_position",
     "filter_hits", "which", "get_entrez", "main", "__name__",
     "__builtins__", "__doc__", "__file__"}

\* names assigned somewhere in main
MainLocals ==
    {"parser", "args", "seq_handle", "blast_output", "blast_type",
     "output_file", "max_query_start", "max_diff", "name_seqs",
     "max_subject_start", "record_dict", "blast_dict", "blast_f", "line",
     "blast_res", "name", "output_handle", "record", "v", "percent_diff",
     "annotation", "res", "hit_diff", "top_evalue", "top_pident",
     "top_bitscore", "top_mismatch"}

\* ------------------------------------------------------------ the gate
Scale(bt) == IF bt = "blastn" THEN 1 ELSE 3

\* variant: abs() of line 215 left out
HitDiff_noabs(res, bt) == <<res.qlen - res.length * Scale(bt), res.qlen>>

HitDiff(res, bt) == <<Abs(res.qlen - res.length * Scale(bt)), res.qlen>>

\* variant: the two start conditions joined by "or"
PositionOk_either(res, mqs, mss) == res.qstart <= mqs \/ res.sstart <= mss

PositionOk(res, mqs, mss) == res.qstart <= mqs /\ res.sstart <= mss

AssertBlastType(bt) == bt \in {"blastn", "blastx"}

\* variant: "<=" in place of "<" at line 67
check_hit_position_le(res, current_hit_diff, new_hit_diff, mqs, mss, bt) ==
    [raised |-> ~AssertBlastType(bt),
     res |-> PositionOk(res, mqs, mss) /\ LessEq(new_hit_diff, current_hit_diff)]

\* raised: the assert of line 63 failed; res: the returned boolean
check_hit_position(res, current_hit_diff, new_hit_diff, mqs, mss, bt) ==
    [raised |-> ~AssertBlastType(bt),
     res |-> PositionOk(res, mqs, mss) /\ Less(new_hit_diff, current_hit_diff)]

CallBlastType == "blastx"

AnnotationText(res, diff) == <<res.sseqid, " Diff: ", Round2(diff)>>

Description(id, ann) == [id |-> id, annotation |-> ann]

\* ------------------------------------------------------------- actions
Abort(kind) ==
    /\ pc' = "aborted"
    /\ error' = kind

\* variant: max_subject_start not scaled for blastx
ParseArgs_unscaled ==
    /\ pc = "args"
    /\ max_subject_start' =
          IF blast_type \in {"blastn", "blastx"} THEN Bound(arg_max_subject_start)
          ELSE Unset
    /\ pc' = "loop"
    /\ UNCHANGED <<blast_type, max_query_start, arg_max_subject_start, record_ids,
                   blast_dict, rec, k, percent_diff, annotation, winner,
                   rejected3, top_evalue, top_pident, top_bitscore,
                   top_mismatch, output, error>>

ParseArgs ==
    /\ pc = "args"
    /\ max_subject_start' =
          IF blast_type = "blastx" THEN Bound(arg_max_subject_start * 3)
          ELSE IF blast_type = "blastn" THEN Bound(arg_max_subject_start)
          ELSE Unset
    /\ pc' = "loop"
    /\ UNCHANGED <<blast_type, max_query_start, arg_max_subject_start,
                   record_ids, blast_dict, rec, k, percent_diff, annotation, winner, rejected3, top_evalue,
                   top_pident, top_bitscore, top_mismatch, output, error>>

\* variant: percent_diff = 1 set once before the loop over the records
NextRecord_noreset ==
    /\ pc = "loop"
    /\ rec <= Len(record_ids)
    /\ annotation' = NoHit
    /\ winner' = 0
    /\ rejected3' = {}
    /\ k' = 1
    /\ pc' = IF Len(blast_dict[record_ids[rec]]) >= 1 THEN "scan" ELSE "write"
    /\ UNCHANGED <<blast_type, max_query_start, arg_max_subject_start,
                   max_subject_start, record_ids, blast_dict, rec, percent_diff,
                   top_evalue, top_pident, top_bitscore, top_mismatch, output,
                   error>>

\* variant: blast_dict a plain dict, so that an id without hits raises
NextRecord_keyerror ==
    /\ pc = "loop"
    /\ rec <= Len(record_ids)
    /\ percent_diff' = One
    /\ annotation' = NoHit
    /\ winner' = 0
    /\ rejected3' = {}
    /\ k' = 1
    /\ pc' = IF Len(blast_dict[record_ids[rec]]) >= 1 THEN "scan" ELSE "aborted"
    /\ error' = IF Len(blast_dict[record_ids[rec]]) >= 1 THEN error ELSE "KeyError"
    /\ UNCHANGED <<blast_type, max_query_start, arg_max_subject_start,
                   max_subject_start, record_ids, blast_dict, rec, top_evalue,
                   top_pident, top_bitscore, top_mismatch, output>>

NextRecord ==
    /\ pc = "loop"
    /\ rec <= Len(record_ids)
    /\ percent_diff' = One
    /\ annotation' = NoHit
    /\ winner' = 0
    /\ rejected3' = {}
    /\ k' = 1
    /\ pc' = IF Len(blast_dict[record_ids[rec]]) >= 1 THEN "scan" ELSE "write"
    /\ UNCHANGED <<blast_type, max_query_start, arg_max_subject_start,
                   max_subject_start, record_ids,
                   blast_dict, rec, top_evalue, top_pident, top_bitscore,
                   top_mismatch, output, error>>

ScanHit ==
    /\ pc = "scan"
    /\ LET v == blast_dict[record_ids[rec]]
           res == v[k]
           hit_diff == HitDiff(res, blast_type)
           gate == check_hit_position(res, percent_diff, hit_diff,
                                      max_query_start, ValueOf(max_subject_start),
                                      CallBlastType)
           more == IF k = Len(v) THEN "write" ELSE "scan"
       IN  IF res.qlen = 0 THEN
               /\ Abort("ZeroDivisionError")
               /\ UNCHANGED <<k, percent_diff, annotation, winner, rejected3,
                              top_evalue, top_pident, top_bitscore, top_mismatch>>
           ELSE IF max_subject_start = Unset THEN
               /\ Abort("UnboundLocalError")
               /\ UNCHANGED <<k, percent_diff, annotation, winner, rejected3,
                              top_evalue, top_pident, top_bitscore, top_mismatch>>
           ELSE IF gate.raised THEN
               /\ Abort("AssertionError")
               /\ UNCHANGED <<k, percent_diff, annotation, winner, rejected3,
                              top_evalue, top_pident, top_bitscore, top_mismatch>>
           ELSE IF gate.res THEN
               IF ~("evalue" \in ModuleGlobals) THEN
                   /\ percent_diff' = hit_diff
                   /\ top_evalue' = Bound(res.evalue)
                   /\ top_pident' = Bound(res.pident)
                   /\ top_bitscore' = Bound(res.bitscore)
                   /\ top_mismatch' = Bound(res.mismatch)
                   /\ annotation' = AnnotationText(res, hit_diff)
                   /\ winner' = k
                   /\ k' = k + 1
                   /\ pc' = more
                   /\ UNCHANGED <<rejected3, error>>
               ELSE
                   \* line 228 reads BlastRes_obj, bound neither in main nor globally
                   /\ "BlastRes_obj" \notin (MainLocals \cup ModuleGlobals)
                   /\ percent_diff' = hit_diff
                   /\ Abort("NameError")
                   /\ UNCHANGED <<k, annotation, winner, rejected3, top_evalue,
                                  top_pident, top_bitscore, top_mismatch>>
           ELSE
               /\ rejected3' = IF PositionOk(res, max_query_start, ValueOf(max_subject_start))
                               THEN rejected3 \cup {k} ELSE rejected3
               /\ k' = k + 1
               /\ pc' = more
               /\ UNCHANGED <<percent_diff, annotation, winner, top_evalue,
                              top_pident, top_bitscore, top_mismatch, error>>
    /\ UNCHANGED <<blast_type, max_query_start, arg_max_subject_start,
                   max_subject_start, record_ids,
                   blast_dict, rec, output>>

WriteRecord ==
    /\ pc = "write"
    /\ output' = Append(output, Description(record_ids[rec], annotation))
    /\ rec' = rec + 1
    /\ pc' = "loop"
    /\ UNCHANGED <<blast_type, max_query_start, arg_max_subject_start,
                   max_subject_start, record_ids,
                   blast_dict, k, percent_diff, annotation, winner, rejected3,
                   top_evalue, top_pident, top_bitscore, top_mismatch, error>>

Finish ==
    /\ pc = "loop"
    /\ rec > Len(record_ids)
    /\ pc' = "done"
    /\ UNCHANGED <<blast_type, max_query_start, arg_max_subject_start,
                   max_subject_start, record_ids,
                   blast_dict, rec, k, percent_diff, annotation, winner,
                   rejected3, top_evalue, top_pident, top_bitscore,
                   top_mismatch, output, error>>

Next == ParseArgs \/ NextRecord \/ ScanHit \/ WriteRecord \/ Finish

\* ------------------------------------------------------------- inputs
SeqsUpTo(S, n) == UNION {[1..m -> S] : m \in 0..n}

\* the hits BLAST can report for one query of length qlen
SelectHits(qlen) ==
    {BlastRes(s, p, qlen, l, m, pos[1], pos[2], e, b) :
        s \in Subjects, p \in PIdents, l \in Lengths, m \in Mismatches,
        pos \in Positions, e \in EValues, b \in BitScores}

PassHits ==
    {BlastRes("s1", 90, 4, 3, 0, 1, 1, 0, 50),
     BlastRes("s2", 90, 4, 2, 0, 1, 1, 1, 50),
     BlastRes("s2", 90, 4, 3, 0, 2, 1, 0, 50)}

InitLocals ==
    /\ max_query_start = DefaultMaxQueryStart
    /\ arg_max_subject_start = DefaultMaxSubjectStart
    /\ max_subject_start = Unset
    /\ pc = "args"
    /\ rec = 1
    /\ k = 1
    /\ percent_diff = One
    /\ annotation = NoHit
    /\ winner = 0
    /\ rejected3 = {}
    /\ top_evalue = Unset
    /\ top_pident = Unset
    /\ top_bitscore = Unset
    /\ top_mismatch = Unset
    /\ output = <<>>
    /\ error = "none"

\* one record, every hit list over the sample values
Init ==
    /\ blast_type \in SupportedTypes
    /\ record_ids = <<1>>
    /\ \E qlen \in QLens :
          blast_dict \in [{1} -> SeqsUpTo(SelectHits(qlen), MaxHits)]
    /\ InitLocals

\* several records, few kinds of hit, every blast_type
InitPass ==
    /\ blast_type \in BlastTypes
    /\ \E n \in 1..MaxRecords :
          /\ record_ids = [i \in 1..n |-> i]
          /\ blast_dict \in [1..n -> SeqsUpTo(PassHits, MaxHits)]
    /\ InitLocals

Spec == Init /\ [][Next]_vars

SpecPass == InitPass /\ [][Next]_vars

\* =====================================================================
\* Reference notions used by the properties.  They are written from the
\* formulas of the specification, independently of the gate above.
\* =====================================================================
RefScale == IF blast_type = "blastn" THEN 1 ELSE 3

RefDiff(h) == <<Abs(h.qlen - h.length * RefScale), h.qlen>>

RefAdmissible(h) ==
    /\ h.qstart <= max_query_start
    /\ h.sstart <= arg_max_subject_start * RefScale

\* the hit list of the record being processed
CurV == blast_dict[record_ids[rec]]

\* the scan of the current record's hits is over and nothing was raised
ScanOver == pc = "write" /\ Len(CurV) >= 1

\* a and b are positionally admissible hits of v with identical coverage
\* difference, below 1 and least among the positionally admissible hits
TiedBest(v, a, b) ==
    /\ a # b
    /\ RefAdmissible(v[a])
    /\ RefAdmissible(v[b])
    /\ SameDiff(RefDiff(v[a]), RefDiff(v[b]))
    /\ Less(RefDiff(v[a]), One)
    /\ \A i \in 1..Len(v) :
          RefAdmissible(v[i]) => LessEq(RefDiff(v[a]), RefDiff(v[i]))

\* the tie-break cascade of the specification, on numeric values
Cascade(h, te, tp, tb, tm) ==
    \/ h.evalue < te
    \/ h.evalue = te /\ h.pident > tp
    \/ h.evalue = te /\ h.pident = tp /\ h.bitscore > tb
    \/ h.evalue = te /\ h.pident = tp /\ h.bitscore = tb /\ h.mismatch < tm

\* the reference selection of claim C9
RefCandidates(v) ==
    {i \in 1..Len(v) : RefAdmissible(v[i]) /\ Less(RefDiff(v[i]), One)}

RefWinner(v) ==
    CHOOSE i \in RefCandidates(v) :
        \A j \in RefCandidates(v) :
            \/ Less(RefDiff(v[i]), RefDiff(v[j]))
            \/ SameDiff(RefDiff(v[i]), RefDiff(v[j])) /\ i <= j

RefAnnotation(v) ==
    IF RefCandidates(v) = {} THEN NoHit
    ELSE <<v[RefWinner(v)].sseqid, " Diff: ", Round2(RefDiff(v[RefWinner(v)]))>>

HasZeroQLen(v) == \E i \in 1..Len(v) : v[i].qlen = 0

\* ---------------------------------------------------------------- C1
\* C1 (as stated): of two positionally admissible hits A and B with identical
\* coverage difference (here: the least of the list and below 1, so that the
\* tie decides the winner) and e_value(A) < e_value(B), the selected hit is A
\* whichever of the two comes first.
C1_LowerEValueWinsTie ==
    ScanOver =>
        \A a, b \in 1..Len(CurV) :
            (TiedBest(CurV, a, b) /\ CurV[a].evalue < CurV[b].evalue)
                => (winner # 0 /\ CurV[winner] = CurV[a])

\* C1 (amended): such a tie is decided by encounter order alone: the selected
\* hit is the first hit of the list with that coverage difference among the
\* positionally admissible ones, so of A and B the later one is never
\* selected, whatever the e-values.
C1_FirstOfTieWins ==
    ScanOver =>
        \A a, b \in 1..Len(CurV) :
            (TiedBest(CurV, a, b) /\ a < b)
                => /\ winner # 0
                   /\ winner <= a
                   /\ winner # b
                   /\ RefAdmissible(CurV[winner])
                   /\ SameDiff(RefDiff(CurV[winner]), RefDiff(CurV[a]))
                   /\ \A i \in 1..(winner - 1) :
                         ~(RefAdmissible(CurV[i])
                           /\ SameDiff(RefDiff(CurV[i]), RefDiff(CurV[a])))

\* a tie in which the later hit has the smaller e-value and the earlier wins
C1_Witness ==
    /\ ScanOver
    /\ \E a, b \in 1..Len(CurV) :
          /\ TiedBest(CurV, a, b)
          /\ a < b
          /\ CurV[b].evalue < CurV[a].evalue
          /\ winner = a

\* ---------------------------------------------------------------- C2
\* C2: during the scan of one record, an incumbent is replaced only by the
\* hit under examination and only if that hit's coverage difference is
\* strictly smaller than the incumbent's; a hit of equal or larger coverage
\* difference never becomes the winner.
C2_ReplacedOnlyByStrictlySmaller ==
    [][(pc = "scan" /\ winner # 0 /\ winner' # winner)
          => /\ winner' = k
             /\ Less(RefDiff(CurV[k]), RefDiff(CurV[winner]))]_vars

\* the first hit stays the winner against a later admissible hit of larger
\* coverage difference and better e-value
C2_Witness ==
    /\ ScanOver
    /\ Len(CurV) = 2
    /\ winner = 1
    /\ RefAdmissible(CurV[2])
    /\ Less(RefDiff(CurV[1]), RefDiff(CurV[2]))
    /\ CurV[2].evalue < CurV[1].evalue

\* ---------------------------------------------------------------- C3
\* C3: after the first accepted hit, a hit that passes the gate replaces the
\* annotated winner only if the tie-break cascade accepts it against the
\* recorded top statistics.
C3_CascadeGuardsReplacement ==
    [][(pc = "scan" /\ winner # 0 /\ winner' # winner)
          => Cascade(CurV[k], ValueOf(top_evalue), ValueOf(top_pident),
                     ValueOf(top_bitscore), ValueOf(top_mismatch))]_vars

\* ---------------------------------------------------------------- C4
\* C4 (as stated): when a hit is selected, the final coverage difference is
\* >= 0 and strictly less than the coverage difference of every hit that
\* was rejected by rule 3.
C4_StrictlyBelowRejected ==
    (ScanOver /\ winner # 0) =>
        /\ LessEq(<<0, 1>>, percent_diff)
        /\ \A i \in rejected3 : Less(percent_diff, RefDiff(CurV[i]))

\* C4 (amended): when a hit is selected, the final coverage difference
\* (before rounding for display) is >= 0 and less than or equal to the
\* coverage difference of every hit that was rejected by rule 3.
C4_NotAboveRejected ==
    (ScanOver /\ winner # 0) =>
        /\ LessEq(<<0, 1>>, percent_diff)
        /\ SameDiff(percent_diff, RefDiff(CurV[winner]))
        /\ \A i \in rejected3 : LessEq(percent_diff, RefDiff(CurV[i]))

\* a selected hit and a hit rejected by rule 3 with the same coverage
\* difference, next to one rejected with a larger one
C4_Witness ==
    /\ ScanOver
    /\ winner # 0
    /\ \E i \in rejected3 : SameDiff(percent_diff, RefDiff(CurV[i]))

\* ---------------------------------------------------------------- C5
\* a hit of the current record with a zero query or alignment length has
\* been taken up by the for loop
ZeroLengthExamined ==
    /\ pc \in {"scan", "write", "aborted"}
    /\ \E i \in 1..Len(CurV) :
          /\ CurV[i].qlen = 0 \/ CurV[i].length = 0
          /\ \/ pc = "write"
             \/ pc = "scan" /\ i < k
             \/ pc = "aborted" /\ i <= k

\* C5: a hit whose query length or alignment length is zero is fatal: once
\* such a hit has been examined the run is aborted; it is never passed over
\* as a candidate that merely fails to qualify.
C5_ZeroLengthIsFatal == ZeroLengthExamined => pc = "aborted"

\* ---------------------------------------------------------------- C6
\* C6: a record without hits is never an error: it is written with the
\* annotation "No hit", in its turn, and the pass goes on to the next record.
C6_NoEntriesIsNoHit ==
    /\ Len(output) = rec - 1
    /\ \A j \in 1..Len(output) :
          /\ output[j].id = record_ids[j]
          /\ blast_dict[record_ids[j]] = <<>>
                => output[j] = Description(record_ids[j], NoHit)
    /\ pc = "aborted" => blast_dict[record_ids[rec]] # <<>>
    /\ pc = "done" => Len(output) = Len(record_ids)

\* a record without hits was written and the next record after it as well
C6_Witness ==
    /\ Len(output) >= 2
    /\ blast_dict[record_ids[1]] = <<>>
    /\ output[1] = Description(record_ids[1], NoHit)
    /\ blast_dict[record_ids[2]] # <<>>

\* ---------------------------------------------------------------- C7
\* C7: a record whose hit list is not empty and whose hits all fail the
\* positional gate is annotated "No hit".
AllFailPosition(v) == Len(v) >= 1 /\ \A i \in 1..Len(v) : ~RefAdmissible(v[i])

C7_AllInadmissibleIsNoHit ==
    \A j \in 1..Len(output) :
        AllFailPosition(blast_dict[output[j].id]) => output[j].annotation = NoHit

\* written "No hit" although a hit covers the whole query, because one hit
\* starts too late in the query and the other too late in the subject
C7_Witness ==
    /\ Len(output) = 1
    /\ AllFailPosition(blast_dict[output[1].id])
    /\ \E i, j \in 1..Len(blast_dict[output[1].id]) :
          /\ blast_dict[output[1].id][i].qstart > max_query_start
          /\ blast_dict[output[1].id][j].qstart <= max_query_start
          /\ SameDiff(RefDiff(blast_dict[output[1].id][i]), <<0, 1>>)
    /\ output[1].annotation = NoHit

C10_UnsupportedModeRejected ==
    blast_type \notin SupportedTypes =>
        /\ output = <<>>
        /\ winner = 0
        /\ pc # "done"
        /\ error \in {"none", "AssertionError"}

====
